---- MODULE Spec2Model ----
(***************************************************************************)
(* Model of safe_transaction_service/history/signals.py.                   *)
(*                                                                         *)
(* Part 1 (Spec, SeqSpec): the post_save receiver bind_confirmation over   *)
(* the MultisigTransaction and MultisigConfirmation tables.  Every storage *)
(* statement of the receiver (filtered update, get, save(update_fields))   *)
(* is one atomic step that is immediately visible to the other writers:    *)
(* the source opens no transaction.  Between two statements of one         *)
(* receiver the statements of the other receivers, the inserts of other    *)
(* writers and clock ticks may take place.                                 *)
(*                                                                         *)
(* Part 2 (NotifySpec): _process_notification_event, one statement per     *)
(* step, with the payload builder, the relevance classifier, the task      *)
(* queue and the event bus as nondeterministic collaborators.              *)
(*                                                                         *)
(* Part 3 (FrameSpec): bind_confirmation while other writers change the    *)
(* fields of the rows that the receiver does not name.                     *)
(*                                                                         *)
(* Part 4 (StatusSpec): the post_save receiver add_to_historical_table.    *)
(*                                                                         *)
(* Part 5 (ResolverSpec): get_safe_addresses_involved_from_db_instance.    *)
(***************************************************************************)
EXTENDS Integers, Sequences, FiniteSets, TLC

\* ------------------------------------------------------------------ bounds
NumHashes == 2
NumConfs == 2
MaxClock == 1
MaxResaves == 1
MaxPayloads == 2
NumBodies == 2
NumSafes == 2
MaxNonce == 1
MaxWrites == 3
MaxPending == 2
MaxExtra == 1

Hashes == 1..NumHashes
Confs == 1..NumConfs

\* multisig_transaction_id of a confirmation that has no transaction (NULL)
NoTx == 0

\* send_notification_task.apply_async(countdown=5, priority=2)
Countdown == 5
Priority == 2

\* payload.get("address"): None when the key is absent or holds None, the
\* empty string, or an address
NoneAddr == "<None>"
AddrValues == {NoneAddr, "", "0xA", "0xB"}
Payloads == [address : AddrValues, body : 1..NumBodies]
PayloadLists == UNION {[1..n -> Payloads] : n \in 0..MaxPayloads}

VARIABLES
    now,     \* the wall clock read by timezone.now()
    mtx,     \* table MultisigTransaction, keyed by safe_tx_hash (primary key)
    mconf,   \* table MultisigConfirmation
    hT,      \* per transaction row: the bind_confirmation call made for it
    hC,      \* per confirmation row: the bind_confirmation call made for it
    resaves, \* number of post_save signals sent with created=False so far
    npc,     \* _process_notification_event: position
    nargs,   \* _process_notification_event: arguments created, deleted
    payloads,\* _process_notification_event: result of build_event_payload
    nidx,    \* _process_notification_event: index of the payload of the loop
    ncalls,  \* calls made to the collaborators so far, in order
    nerror,  \* the exception the call raised to its caller, "none" if none
    last,    \* table SafeLastStatus: per safe the nonce stored, NoStatus if none
    written, \* the SafeLastStatus instances written so far, in order
    pending, \* writes whose post_save call of add_to_historical_table is due
    history, \* table SafeStatus, in insertion order
    returned,\* what the last call of add_to_historical_table returned
    rpc,     \* get_safe_addresses_involved_from_db_instance: position
    rInst,   \* its argument
    rOut     \* its result

nvars == <<npc, nargs, payloads, nidx, ncalls, nerror>>
svars == <<last, written, pending, history, returned>>
rvars == <<rpc, rInst, rOut>>
ovars == <<svars, rvars>>
vars == <<now, mtx, mconf, hT, hC, resaves,
          npc, nargs, payloads, nidx, ncalls, nerror,
          last, written, pending, history, returned, rpc, rInst, rOut>>

\* ---------------------------------------------------- status and resolver
Safes == 1..NumSafes
NoStatus == -1

\* a SafeLastStatus instance, and a SafeStatus row: the same fields
StatusRows == [address : Safes, nonce : 0..MaxNonce]
NoSnapshot == [address |-> 0, nonce |-> NoStatus]

\* the values of an address attribute: None or an address
AddrOpt == {NoneAddr, "0xA", "0xB"}

\* instance.multisig_transaction of a confirmation: None, or a transaction
\* with its safe
NoTxObj == [bound |-> FALSE, safe |-> NoneAddr]
TxObjs == {NoTxObj} \cup [bound : {TRUE}, safe : AddrOpt]

\* the argument of the resolver: the class of the instance and the
\* attributes the resolver may read (to, _from, safe, multisig_transaction)
Kinds == {"TokenTransfer", "MultisigTransaction", "MultisigConfirmation",
          "InternalTx", "SafeContract"}
Instances == [kind : Kinds, to : AddrOpt, from : AddrOpt, safe : AddrOpt,
              multisig_transaction : TxObjs]
NoInstance == [kind |-> "SafeContract", to |-> NoneAddr, from |-> NoneAddr,
               safe |-> NoneAddr, multisig_transaction |-> NoTxObj]

\* ------------------------------------------------------------ rows, locals
NoTxRow == [present |-> FALSE, trusted |-> FALSE, modified |-> 0, created |-> 0,
            extra |-> 0]
NoConfRow == [present |-> FALSE, hash |-> 1, tx |-> NoTx, created |-> 0,
              extra |-> 0]

\* The bind_confirmation call made for a transaction row: pc (the statement
\* it executes next), instance.modified and instance.trusted of the in-memory
\* instance (dropped when the call returns), and as the call's record:
\* updated (line 58) and wrote (the call has written the transaction row).
\* extra is the instance's value of the fields the receiver does not name;
\* stale records that the row had another value when the instance was saved.
IdleT == [pc |-> "idle", updated |-> 0, modified |-> 0, trusted |-> FALSE,
          extra |-> 0, wrote |-> FALSE, stale |-> FALSE]

\* The bind_confirmation call made for a confirmation row: pc, found (the
\* primary key of the row returned by get, dropped when the call returns),
\* and as the call's record: miss (DoesNotExist was raised and caught), wrote
\* (the call has written a row), first (the row was inserted before its
\* transaction), by (the branch that set the row's back-reference first).
\* extra and fextra are the values that the instance and the transaction
\* returned by get have of the fields the receiver does not name; stale
\* records that a row had another value when its instance was saved.
IdleC == [pc |-> "idle", found |-> NoTx, fextra |-> 0, extra |-> 0,
          miss |-> FALSE, wrote |-> FALSE, first |-> FALSE, by |-> "none",
          stale |-> FALSE]

\* --------------------------------------------------------------- helpers
\* MultisigConfirmation.objects.without_transaction(): rows whose
\* multisig_transaction is NULL
WithoutTransaction == {c \in Confs : mconf[c].present /\ mconf[c].tx = NoTx}

\* faulty variant: the filter on the hash left out
UnboundAnyHash(h) == WithoutTransaction

\* .filter(multisig_transaction_hash=instance.safe_tx_hash) on that queryset
UnboundWithHash(h) == {c \in WithoutTransaction : mconf[c].hash = h}

\* faulty variant: `if not created: return` left out
BindBranchAlways(sender, created, tx_id) ==
    IF sender = "MultisigTransaction" THEN "t_update"
    ELSE IF sender = "MultisigConfirmation"
         THEN (IF tx_id # NoTx THEN "c_update" ELSE "c_get")
         ELSE "done"

\* Which statement a call of bind_confirmation executes first: "done" when it
\* returns without executing any.  tx_id is instance.multisig_transaction_id.
\* instance.multisig_transaction_hash is a hash of Hashes, never empty.
BindBranch(sender, created, tx_id) ==
    IF ~created THEN "done"
    ELSE IF sender = "MultisigTransaction" THEN "t_update"
    ELSE IF sender = "MultisigConfirmation"
         THEN (IF tx_id # NoTx THEN "c_update" ELSE "c_get")
         ELSE "done"

\* faulty variant: `if updated:` left out
AfterUpdateAlways(updated) == "t_stamp"

\* faulty variant: `if updated > 1`
AfterUpdateOfSeveral(updated) == IF updated > 1 THEN "t_stamp" ELSE "done"

\* `if updated:`: the transaction is stamped and saved only when the update
\* has changed at least one row
AfterUpdate(updated) == IF updated > 0 THEN "t_stamp" ELSE "done"

\* faulty variant: `instance.trusted = True` left out
StampModifiedOnly(loc, t) == [loc EXCEPT !.modified = t]

\* instance.modified = timezone.now(); instance.trusted = True
StampInstance(loc, t) == [loc EXCEPT !.modified = t, !.trusted = TRUE]

\* faulty variant: update_fields=["modified"]
WriteModifiedOnly(row, modified, trusted) == [row EXCEPT !.modified = modified]

\* save(update_fields=["modified", "trusted"]) and
\* .update(modified=..., trusted=...): only these two columns are written
WriteModifiedTrusted(row, modified, trusted) ==
    [row EXCEPT !.modified = modified, !.trusted = trusted]

\* faulty variant: save() without update_fields stores every field of the
\* in-memory instance
SaveEveryField(row, instance) ==
    [WriteModifiedTrusted(row, instance.modified, instance.trusted)
        EXCEPT !.extra = instance.extra]

\* instance.save(update_fields=["modified", "trusted"]) of an in-memory
\* transaction: of the instance's fields only these two reach the row
SaveModifiedTrusted(row, instance) ==
    WriteModifiedTrusted(row, instance.modified, instance.trusted)

\* faulty variant: the confirmation branch refreshes modified but not trusted
TouchFromConfirmation(row, conf_created) ==
    WriteModifiedTrusted(row, conf_created, row.trusted)

\* modified=instance.created, trusted=True, written to the transaction row
TrustFromConfirmation(row, conf_created) ==
    WriteModifiedTrusted(row, conf_created, TRUE)

\* faulty variant: the row is saved with the reference the in-memory instance had
\* before the assignment (None)
WriteStaleReference(row, tx) == [row EXCEPT !.tx = NoTx]

\* instance.multisig_transaction = multisig_transaction;
\* instance.save(update_fields=["multisig_transaction"])
WriteBackReference(row, tx) == [row EXCEPT !.tx = tx]

\* instance.save(update_fields=["multisig_transaction"]) of the in-memory
\* confirmation: of the instance's fields only the reference reaches the row
SaveMultisigTransaction(row, instance) == WriteBackReference(row, instance.found)

\* .update(multisig_transaction=instance) on a row of the filtered queryset
UpdateBackReference(row, h) == [row EXCEPT !.tx = h]

\* faulty variant: the except clause does not match the exception raised
CatchNothing(exc) == "raised"

\* `except MultisigTransaction.DoesNotExist: pass`: where the call goes when
\* the body of the try raises exc
CatchDoesNotExist(exc) == IF exc = "DoesNotExist" THEN "done" ELSE "raised"

\* no receiver is between two of its statements
Quiescent ==
    /\ \A h \in Hashes : hT[h].pc \in {"idle", "done"}
    /\ \A c \in Confs : hC[c].pc \in {"idle", "done", "raised"}

\* confirmation c was inserted without a transaction reference: it has none,
\* or the one it has was set by bind_confirmation
InsertedUnbound(c) ==
    mconf[c].present /\ (mconf[c].tx = NoTx \/ hC[c].by # "none")

\* ------------------------------------------------------------------- Init
Init ==
    /\ now = 0
    /\ mtx = [h \in Hashes |-> NoTxRow]
    /\ mconf = [c \in Confs |-> NoConfRow]
    /\ hT = [h \in Hashes |-> IdleT]
    /\ hC = [c \in Confs |-> IdleC]
    /\ resaves = 0
    /\ npc = "idle"
    /\ nargs = [created |-> FALSE, deleted |-> FALSE]
    /\ payloads = <<>>
    /\ nidx = 1
    /\ ncalls = <<>>
    /\ nerror = "none"
    /\ last = [a \in Safes |-> NoStatus]
    /\ written = <<>>
    /\ pending = <<>>
    /\ history = <<>>
    /\ returned = NoSnapshot
    /\ rpc = "idle"
    /\ rInst = NoInstance
    /\ rOut = <<>>

\* ------------------------------------------------------ writers and clock
\* time passes
Tick ==
    /\ now < MaxClock
    /\ now' = now + 1
    /\ UNCHANGED <<mtx, mconf, hT, hC, resaves, nvars, ovars>>

\* A writer inserts transaction h; post_save calls bind_confirmation with
\* created=True.  The call's first statement is still to be executed.
CreateTransaction(h, tr) ==
    /\ ~mtx[h].present
    /\ mtx' = [mtx EXCEPT ![h] = [present |-> TRUE, trusted |-> tr,
                                  modified |-> now, created |-> now,
                                  extra |-> 0]]
    /\ hT' = [hT EXCEPT ![h] =
                [IdleT EXCEPT !.pc = BindBranch("MultisigTransaction", TRUE, NoTx),
                              !.modified = now, !.trusted = tr, !.extra = 0]]
    /\ UNCHANGED <<now, mconf, hC, resaves, nvars, ovars>>

\* A writer inserts confirmation c for hash h, with the transaction already
\* referenced (bound) or not; post_save calls bind_confirmation, created=True.
CreateConfirmation(c, h, bound) ==
    /\ ~mconf[c].present
    /\ bound => mtx[h].present
    /\ LET tx == IF bound THEN h ELSE NoTx IN
       /\ mconf' = [mconf EXCEPT ![c] = [present |-> TRUE, hash |-> h,
                                         tx |-> tx, created |-> now,
                                         extra |-> 0]]
       /\ hC' = [hC EXCEPT ![c] =
                   [IdleC EXCEPT !.pc = BindBranch("MultisigConfirmation", TRUE, tx),
                                 !.first = ~mtx[h].present, !.extra = 0]]
    /\ UNCHANGED <<now, mtx, hT, resaves, nvars, ovars>>

\* A writer saves an existing transaction again: post_save, created=False.
SaveTransaction(h) ==
    /\ mtx[h].present
    /\ hT[h].pc = "done"
    /\ resaves < MaxResaves
    /\ resaves' = resaves + 1
    /\ LET pc == BindBranch("MultisigTransaction", FALSE, NoTx) IN
       hT' = IF pc = "done" THEN hT
             ELSE [hT EXCEPT ![h].pc = pc, ![h].modified = mtx[h].modified,
                             ![h].trusted = mtx[h].trusted]
    /\ UNCHANGED <<now, mtx, mconf, hC, nvars, ovars>>

\* A writer saves an existing confirmation again: post_save, created=False.
SaveConfirmation(c) ==
    /\ mconf[c].present
    /\ hC[c].pc = "done"
    /\ resaves < MaxResaves
    /\ resaves' = resaves + 1
    /\ hC' = [hC EXCEPT ![c].pc =
                BindBranch("MultisigConfirmation", FALSE, mconf[c].tx)]
    /\ UNCHANGED <<now, mtx, mconf, hT, nvars, ovars>>

\* ------------------------------------- bind_confirmation, sender Transaction
\* lines 58-63: the filtered update and its count
TxUpdateConfirmations(h) ==
    /\ hT[h].pc = "t_update"
    /\ LET sel == UnboundWithHash(h)
           n == Cardinality(sel) IN
       /\ mconf' = [c \in Confs |->
                      IF c \in sel THEN UpdateBackReference(mconf[c], h) ELSE mconf[c]]
       /\ hC' = [c \in Confs |->
                   IF c \in sel THEN [hC[c] EXCEPT !.by = "T"] ELSE hC[c]]
       /\ hT' = [hT EXCEPT ![h].updated = n,
                           ![h].pc = AfterUpdate(n),
                           ![h].modified = IF AfterUpdate(n) = "done" THEN 0 ELSE @,
                           ![h].trusted = IF AfterUpdate(n) = "done" THEN FALSE ELSE @]
    /\ UNCHANGED <<now, mtx, resaves, nvars, ovars>>

\* lines 65-66
TxStamp(h) ==
    /\ hT[h].pc = "t_stamp"
    /\ hT' = [hT EXCEPT ![h] = [StampInstance(hT[h], now) EXCEPT !.pc = "t_save"]]
    /\ UNCHANGED <<now, mtx, mconf, hC, resaves, nvars, ovars>>

\* line 67
TxSave(h) ==
    /\ hT[h].pc = "t_save"
    /\ mtx' = [mtx EXCEPT ![h] = SaveModifiedTrusted(mtx[h], hT[h])]
    /\ hT' = [hT EXCEPT ![h].pc = "done", ![h].wrote = TRUE,
                        ![h].stale = (hT[h].extra # mtx[h].extra),
                        ![h].modified = 0, ![h].trusted = FALSE]
    /\ UNCHANGED <<now, mconf, hC, resaves, nvars, ovars>>

\* ------------------------------------ bind_confirmation, sender Confirmation
\* lines 69-73: the confirmation was inserted with its transaction
ConfUpdateTransaction(c) ==
    /\ hC[c].pc = "c_update"
    /\ LET h == mconf[c].hash IN
       /\ mtx' = [mtx EXCEPT ![h] =
                    IF mtx[h].present
                    THEN TrustFromConfirmation(mtx[h], mconf[c].created)
                    ELSE mtx[h]]
       /\ hC' = [hC EXCEPT ![c].pc = "done", ![c].wrote = mtx[h].present]
    /\ UNCHANGED <<now, mconf, hT, resaves, nvars, ovars>>

\* lines 75-79 and 86-87: the lookup, and DoesNotExist caught
ConfGetTransaction(c) ==
    /\ hC[c].pc = "c_get"
    /\ LET h == mconf[c].hash IN
       hC' = IF mtx[h].present
             THEN [hC EXCEPT ![c].found = h, ![c].fextra = mtx[h].extra,
                             ![c].pc = "c_save_tx"]
             ELSE [hC EXCEPT ![c].miss = TRUE,
                             ![c].pc = CatchDoesNotExist("DoesNotExist")]
    /\ UNCHANGED <<now, mtx, mconf, hT, resaves, nvars, ovars>>

\* lines 80-82
ConfSaveTransaction(c) ==
    /\ hC[c].pc = "c_save_tx"
    /\ LET h == hC[c].found
           multisig_transaction ==
               TrustFromConfirmation([mtx[h] EXCEPT !.extra = hC[c].fextra],
                                     mconf[c].created) IN
       /\ mtx' = [mtx EXCEPT ![h] = SaveModifiedTrusted(mtx[h], multisig_transaction)]
       /\ hC' = [hC EXCEPT ![c].pc = "c_save_conf", ![c].wrote = TRUE,
                           ![c].stale = (hC[c].fextra # mtx[h].extra),
                           ![c].fextra = 0]
    /\ UNCHANGED <<now, mconf, hT, resaves, nvars, ovars>>

\* lines 84-85
ConfSaveConfirmation(c) ==
    /\ hC[c].pc = "c_save_conf"
    /\ mconf' = [mconf EXCEPT ![c] = SaveMultisigTransaction(mconf[c], hC[c])]
    /\ hC' = [hC EXCEPT ![c].pc = "done", ![c].wrote = TRUE, ![c].found = NoTx,
                        ![c].stale = (@ \/ hC[c].extra # mconf[c].extra),
                        ![c].by = IF @ = "none" THEN "C" ELSE @]
    /\ UNCHANGED <<now, mtx, hT, resaves, nvars, ovars>>

\* ---------------------------------------------- _process_notification_event
bvars == <<now, mtx, mconf, hT, hC, resaves>>

\* faulty variant: `if (address := payload.get("address")) is not None`
NotNone(a) == a # NoneAddr

\* `if address := payload.get("address")`: None and "" are falsy
Truthy(a) == a # NoneAddr /\ a # ""

\* faulty variant: the assert statement left out
NoAssert(created, deleted) == TRUE

\* the condition of the assert statement, lines 157-159
NotCreatedAndDeleted(created, deleted) == ~(created /\ deleted)

\* faulty variant: the result of the classifier is not tested
AfterClassifyAlways(r) == "enqueue"

\* `if is_relevant_notification(...)`: lines 169-180 when it returns True,
\* lines 181-186 (a log line, then the next payload) when it returns False
AfterClassify(r) == IF r THEN "enqueue" ELSE "loop"

\* faulty variant: the exception of a collaborator is caught and the loop goes on
Swallowed(op) == "loop"

\* No statement of the function is inside a try: an exception raised by
\* build_event_payload, is_relevant_notification, apply_async or send_event
\* leaves the function and reaches its caller.
Uncaught(op) == "raised"

\* faulty variant: the values of countdown and priority exchanged
EnqueueCallSwapped(idx, payload, ok) ==
    [op |-> "enqueue", idx |-> idx, address |-> payload.address,
     payload |-> payload, countdown |-> Priority, priority |-> Countdown,
     ok |-> ok]

\* send_notification_task.apply_async(args=(address, payload), countdown=5,
\* priority=2), address being payload.get("address")
EnqueueCall(idx, payload, ok) ==
    [op |-> "enqueue", idx |-> idx, address |-> payload.address,
     payload |-> payload, countdown |-> Countdown, priority |-> Priority,
     ok |-> ok]

\* the calls of one kind made so far
CallsOf(op) == {i \in 1..Len(ncalls) : ncalls[i].op = op}

\* A mutation event reaches the function.
NotifyCall(created, deleted) ==
    /\ npc \in {"idle", "done", "raised"}
    /\ npc' = "assert"
    /\ nargs' = [created |-> created, deleted |-> deleted]
    /\ payloads' = <<>>
    /\ nidx' = 1
    /\ ncalls' = <<>>
    /\ nerror' = "none"
    /\ UNCHANGED <<bvars, ovars>>

\* lines 157-159
NotifyAssert ==
    /\ npc = "assert"
    /\ IF NotCreatedAndDeleted(nargs.created, nargs.deleted)
       THEN npc' = "build" /\ nerror' = nerror
       ELSE npc' = "raised" /\ nerror' = "AssertionError"
    /\ UNCHANGED <<nargs, payloads, nidx, ncalls, bvars, ovars>>

\* line 162: build_event_payload(sender, instance, deleted=deleted) returns a
\* list of payloads, or raises
NotifyBuild(ps, ok) ==
    /\ npc = "build"
    /\ ncalls' = Append(ncalls, [op |-> "build", deleted |-> nargs.deleted, ok |-> ok])
    /\ IF ok
       THEN payloads' = ps /\ npc' = "loop" /\ nerror' = nerror
       ELSE payloads' = payloads /\ npc' = Uncaught("build") /\ nerror' = "build"
    /\ UNCHANGED <<nargs, nidx, bvars, ovars>>

\* lines 166-167: the next payload, and the test of its address
NotifyLoop ==
    /\ npc = "loop"
    /\ IF nidx > Len(payloads)
       THEN npc' = "done" /\ nidx' = nidx
       ELSE IF Truthy(payloads[nidx].address)
            THEN npc' = "classify" /\ nidx' = nidx
            ELSE npc' = "loop" /\ nidx' = nidx + 1
    /\ UNCHANGED <<nargs, payloads, ncalls, nerror, bvars, ovars>>

\* line 168: is_relevant_notification(sender, instance, created) returns r,
\* or raises; lines 181-186 when it returns False
NotifyClassify(r, ok) ==
    /\ npc = "classify"
    /\ ncalls' = Append(ncalls, [op |-> "classify", idx |-> nidx,
                                 created |-> nargs.created, result |-> r, ok |-> ok])
    /\ IF ~ok
       THEN npc' = Uncaught("classify") /\ nerror' = "classify" /\ nidx' = nidx
       ELSE /\ npc' = AfterClassify(r)
            /\ nerror' = nerror
            /\ nidx' = IF AfterClassify(r) = "loop" THEN nidx + 1 ELSE nidx
    /\ UNCHANGED <<nargs, payloads, bvars, ovars>>

\* lines 174-178: send_notification_task.apply_async succeeds or raises
NotifyEnqueue(ok) ==
    /\ npc = "enqueue"
    /\ ncalls' = Append(ncalls, EnqueueCall(nidx, payloads[nidx], ok))
    /\ IF ok
       THEN npc' = "publish" /\ nerror' = nerror
       ELSE npc' = Uncaught("enqueue") /\ nerror' = "enqueue"
    /\ UNCHANGED <<nargs, payloads, nidx, bvars, ovars>>

\* lines 179-180: get_queue_service().send_event(payload) succeeds or raises
NotifyPublish(ok) ==
    /\ npc = "publish"
    /\ ncalls' = Append(ncalls, [op |-> "publish", idx |-> nidx,
                                 payload |-> payloads[nidx], ok |-> ok])
    /\ IF ok
       THEN npc' = "loop" /\ nerror' = nerror /\ nidx' = nidx + 1
       ELSE npc' = Uncaught("publish") /\ nerror' = "publish" /\ nidx' = nidx
    /\ UNCHANGED <<nargs, payloads, bvars, ovars>>

NotifyNext ==
    \/ \E cr \in BOOLEAN, del \in BOOLEAN : NotifyCall(cr, del)
    \/ NotifyAssert
    \/ \E ps \in PayloadLists, ok \in BOOLEAN : NotifyBuild(ps, ok)
    \/ NotifyLoop
    \/ \E r \in BOOLEAN, ok \in BOOLEAN : NotifyClassify(r, ok)
    \/ \E ok \in BOOLEAN : NotifyEnqueue(ok)
    \/ \E ok \in BOOLEAN : NotifyPublish(ok)

NotifySpec == Init /\ [][NotifyNext]_vars

\* ------------------------------------------------- add_to_historical_table
\* SafeStatus.from_status_instance(instance): a SafeStatus with the values
\* of all the fields of the SafeLastStatus instance
FromStatusInstance(instance) ==
    [address |-> instance.address, nonce |-> instance.nonce]

\* faulty variant: `if created:` before the snapshot is stored
AddOnlyWhenCreated(table, instance, created) ==
    IF created THEN Append(table, FromStatusInstance(instance)) ELSE table

\* lines 214-215: the table SafeStatus after the call; `created` is not read
AddToHistoricalTable(table, instance, created) ==
    Append(table, FromStatusInstance(instance))

\* the sequence without its element i
Without(seq, i) == [k \in 1..(Len(seq) - 1) |-> IF k < i THEN seq[k] ELSE seq[k + 1]]

\* how often x occurs in a sequence
Count(seq, x) == Cardinality({i \in 1..Len(seq) : seq[i] = x})

\* A writer inserts or overwrites the SafeLastStatus row of a safe; post_save
\* is sent with the instance and created.
WriteLastStatus(a, n) ==
    /\ Len(written) < MaxWrites
    /\ Len(pending) < MaxPending
    /\ last' = [last EXCEPT ![a] = n]
    /\ written' = Append(written, [address |-> a, nonce |-> n])
    /\ pending' = Append(pending, [instance |-> [address |-> a, nonce |-> n],
                                   created |-> (last[a] = NoStatus)])
    /\ UNCHANGED <<history, returned, rvars, bvars, nvars>>

\* lines 194-216: the call for one of the writes
AddToHistorical(i) ==
    /\ i \in 1..Len(pending)
    /\ history' = AddToHistoricalTable(history, pending[i].instance, pending[i].created)
    /\ returned' = IF Len(history') > Len(history)
                   THEN history'[Len(history')] ELSE NoSnapshot
    /\ pending' = Without(pending, i)
    /\ UNCHANGED <<last, written, rvars, bvars, nvars>>

StatusNext ==
    \/ \E a \in Safes, n \in 0..MaxNonce : WriteLastStatus(a, n)
    \/ \E i \in 1..MaxPending : AddToHistorical(i)

StatusSpec == Init /\ [][StatusNext]_vars

\* ------------------------------ get_safe_addresses_involved_from_db_instance
\* faulty variant: source before destination
GetSafeAddressesSourceFirst(instance) ==
    IF instance.kind = "TokenTransfer" THEN <<instance.from, instance.to>>
    ELSE IF instance.kind = "MultisigTransaction" THEN <<instance.safe>>
    ELSE IF instance.kind = "MultisigConfirmation" /\ instance.multisig_transaction.bound
         THEN <<instance.multisig_transaction.safe>>
    ELSE IF instance.kind = "InternalTx" THEN <<instance.to>>
    ELSE <<>>

\* lines 127-142: the isinstance chain; a transaction object is truthy,
\* None is not
GetSafeAddressesInvolved(instance) ==
    IF instance.kind = "TokenTransfer" THEN <<instance.to, instance.from>>
    ELSE IF instance.kind = "MultisigTransaction" THEN <<instance.safe>>
    ELSE IF instance.kind = "MultisigConfirmation" /\ instance.multisig_transaction.bound
         THEN <<instance.multisig_transaction.safe>>
    ELSE IF instance.kind = "InternalTx" THEN <<instance.to>>
    ELSE <<>>

\* the function is called with an instance
ResolveCall(instance) ==
    /\ rpc \in {"idle", "returned"}
    /\ rpc' = "called"
    /\ rInst' = instance
    /\ rOut' = <<>>
    /\ UNCHANGED <<svars, bvars, nvars>>

\* lines 127-142
ResolveReturn ==
    /\ rpc = "called"
    /\ rpc' = "returned"
    /\ rOut' = GetSafeAddressesInvolved(rInst)
    /\ UNCHANGED <<rInst, svars, bvars, nvars>>

ResolverNext ==
    \/ \E instance \in Instances : ResolveCall(instance)
    \/ ResolveReturn

ResolverSpec == Init /\ [][ResolverNext]_vars

\* ------------------------------------------------------------ specifications
Writer ==
    \/ \E h \in Hashes, tr \in BOOLEAN : CreateTransaction(h, tr)
    \/ \E c \in Confs, h \in Hashes, b \in BOOLEAN : CreateConfirmation(c, h, b)
    \/ \E h \in Hashes : SaveTransaction(h)
    \/ \E c \in Confs : SaveConfirmation(c)

Binder ==
    \/ \E h \in Hashes : TxUpdateConfirmations(h)
    \/ \E h \in Hashes : TxStamp(h)
    \/ \E h \in Hashes : TxSave(h)
    \/ \E c \in Confs : ConfUpdateTransaction(c)
    \/ \E c \in Confs : ConfGetTransaction(c)
    \/ \E c \in Confs : ConfSaveTransaction(c)
    \/ \E c \in Confs : ConfSaveConfirmation(c)

\* Another writer changes a field of transaction h that bind_confirmation
\* does not name (extra stands for every such field).
EditTransaction(h) ==
    /\ mtx[h].present
    /\ mtx[h].extra < MaxExtra
    /\ mtx' = [mtx EXCEPT ![h].extra = @ + 1]
    /\ UNCHANGED <<now, mconf, hT, hC, resaves, nvars, ovars>>

\* Another writer changes such a field of confirmation c.
EditConfirmation(c) ==
    /\ mconf[c].present
    /\ mconf[c].extra < MaxExtra
    /\ mconf' = [mconf EXCEPT ![c].extra = @ + 1]
    /\ UNCHANGED <<now, mtx, hT, hC, resaves, nvars, ovars>>

\* concurrent writers: statements of different receivers interleave
Next == Tick \/ Writer \/ Binder

Spec == Init /\ [][Next]_vars

\* one writer at a time: a row is written only when no receiver is running
SeqNext == Tick \/ (Quiescent /\ Writer) \/ Binder

SeqSpec == Init /\ [][SeqNext]_vars

\* rows are inserted and, while the receivers run, changed by other writers
FrameNext ==
    \/ \E h \in Hashes, tr \in BOOLEAN : CreateTransaction(h, tr)
    \/ \E c \in Confs, h \in Hashes, bound \in BOOLEAN : CreateConfirmation(c, h, bound)
    \/ \E h \in Hashes : EditTransaction(h)
    \/ \E c \in Confs : EditConfirmation(c)
    \/ Binder

FrameSpec == Init /\ [][FrameNext]_vars

\* ------------------------------------------------------------------ claims
\* both rows of a pair are stored: confirmation c, inserted without a
\* transaction reference, and the transaction h whose hash it references
Pair(c, h) == mtx[h].present /\ InsertedUnbound(c) /\ mconf[c].hash = h

\* C1: when every bind_confirmation call runs to completion before the next
\* row is written, then in both orders of inserting a transaction and a
\* confirmation that references its hash the result is the same: the
\* confirmation's back-reference is the transaction and the transaction is
\* trusted.  A confirmation inserted first is bound by the transaction's
\* update (count at least 1), one inserted second by its own lookup.
C1_SequentialOrdersAgree ==
    Quiescent =>
        \A c \in Confs, h \in Hashes :
            Pair(c, h) =>
                /\ mconf[c].tx = h /\ mtx[h].trusted
                /\ hC[c].first => (hC[c].by = "T" /\ hT[h].updated >= 1)
                /\ ~hC[c].first => hC[c].by = "C"

\* one confirmation was inserted before its transaction and bound by the
\* transaction's call, another after its transaction and bound by its own
C1_Witness ==
    /\ Quiescent
    /\ \E c \in Confs : /\ hC[c].first /\ hC[c].by = "T"
                        /\ mconf[c].tx = mconf[c].hash
                        /\ mtx[mconf[c].hash].trusted
    /\ \E c \in Confs : /\ mconf[c].present /\ ~hC[c].first /\ hC[c].by = "C"
                        /\ mconf[c].tx = mconf[c].hash
                        /\ mtx[mconf[c].hash].trusted

C3_ModifiedNotBeforeCreations ==
    \A c \in Confs :
        LET h == mconf[c].hash IN
        (Quiescent /\ Pair(c, h)) =>
            (mtx[h].modified >= mtx[h].created /\ mtx[h].modified >= mconf[c].created)

\* C4: a back-reference that is set is never cleared and never changed to
\* another transaction.
C4_BoundStaysBound ==
    [][\A c \in Confs :
          (mconf[c].present /\ mconf[c].tx # NoTx) => mconf'[c].tx = mconf[c].tx]_vars

\* a call of the confirmation branch writes the back-reference of a row that
\* the transaction branch has bound in the meantime
C4_Witness ==
    \E c \in Confs : hC[c].pc = "c_save_conf" /\ mconf[c].tx # NoTx

\* C5: no step sets the trusted flag of a transaction back to false.
C5_TrustMonotonic ==
    [][\A h \in Hashes : (mtx[h].present /\ mtx[h].trusted) => mtx'[h].trusted]_vars

\* the transaction branch is about to save a row that is trusted already
C5_Witness ==
    \E h \in Hashes : hT[h].pc = "t_save" /\ mtx[h].trusted

\* C6: when the call that set a confirmation's back-reference has returned,
\* the transaction it points to is trusted and that call has rewritten the
\* transaction's modification time; so when no call is running every
\* confirmation bound by bind_confirmation points to a trusted transaction.
C6_BoundImpliesTrusted ==
    \A c \in Confs :
        LET h == mconf[c].tx IN
        /\ (hC[c].by = "T" /\ hT[h].pc = "done") => (mtx[h].trusted /\ hT[h].wrote)
        /\ (hC[c].by = "C" /\ hC[c].pc = "done") => (mtx[h].trusted /\ hC[c].wrote)
        /\ (hC[c].by # "none" /\ Quiescent) => mtx[h].trusted

\* both branches have bound a confirmation of a transaction that its writer
\* inserted untrusted
C6_Witness ==
    /\ Quiescent
    /\ \E c \in Confs : hC[c].by = "T" /\ mtx[mconf[c].tx].trusted
    /\ \E c \in Confs : hC[c].by = "C" /\ mtx[mconf[c].tx].trusted

\* C7: when the lookup of a confirmation inserted without a transaction
\* reference finds no transaction with its hash, the call returns without
\* raising and has written no row, and the confirmation is unbound for as
\* long as no transaction with that hash is stored.
C7_LookupMissIsSilent ==
    \A c \in Confs :
        hC[c].miss =>
            /\ hC[c].pc = "done"
            /\ ~hC[c].wrote
            /\ ~mtx[mconf[c].hash].present => mconf[c].tx = NoTx

\* a call missed, and the transaction has not been inserted since
C7_Witness ==
    \E c \in Confs :
        /\ hC[c].miss /\ hC[c].pc = "done"
        /\ ~mtx[mconf[c].hash].present /\ mconf[c].tx = NoTx

\* C8: a call with created=False returns without executing a statement: it
\* changes no row and leaves no statement to execute.
C8_NotCreatedDoesNothing ==
    [][resaves' # resaves =>
          (mtx' = mtx /\ mconf' = mconf /\ hT' = hT /\ hC' = hC)]_vars

\* a transaction was saved again while a confirmation of its hash was unbound
C8_Witness ==
    /\ resaves > 0
    /\ \E c \in Confs : /\ mconf[c].present /\ mconf[c].tx = NoTx
                        /\ mtx[mconf[c].hash].present
                        /\ hT[mconf[c].hash].pc = "done"

\* C9: called with created and deleted both true, the function raises the
\* assertion error before it calls the payload builder, and makes no
\* enqueue and no publish call.
C9_CreatedAndDeletedIsFatal ==
    (nargs.created /\ nargs.deleted /\ npc # "assert") =>
        (npc = "raised" /\ nerror = "AssertionError" /\ ncalls = <<>>)

C9_Witness ==
    nargs.created /\ nargs.deleted /\ npc = "raised" /\ nerror = "AssertionError"

\* C10: no enqueue call and no publish call is made for a payload whose
\* address is absent, None or empty.
C10_EmptyAddressNeverDispatched ==
    \A i \in 1..Len(ncalls) :
        ncalls[i].op \in {"enqueue", "publish"} =>
            /\ ncalls[i].payload.address \notin {NoneAddr, ""}
            /\ payloads[ncalls[i].idx].address \notin {NoneAddr, ""}

\* the loop has passed a payload with an empty address and dispatched another
C10_Witness ==
    /\ npc = "done"
    /\ Len(payloads) = 2
    /\ payloads[1].address = ""
    /\ \E i \in 1..Len(ncalls) : ncalls[i].op = "publish" /\ ncalls[i].idx = 2

\* C11: an enqueue or publish call is made only after the classifier has
\* returned True for the payload at hand; so when the classifier returns
\* False for a mutation, no enqueue and no publish call is made, however
\* many payloads there are.
C11_NotRelevantNoDispatch ==
    /\ \A i \in 1..Len(ncalls) :
          ncalls[i].op \in {"enqueue", "publish"} =>
              \E j \in 1..(i - 1) :
                  /\ ncalls[j].op = "classify" /\ ncalls[j].idx = ncalls[i].idx
                  /\ ncalls[j].ok /\ ncalls[j].result
    /\ (\A j \in 1..Len(ncalls) : ncalls[j].op = "classify" => ~ncalls[j].result)
          => \A i \in 1..Len(ncalls) : ncalls[i].op \notin {"enqueue", "publish"}

\* two payloads with an address were classified not relevant, and the call
\* has returned
C11_Witness ==
    /\ npc = "done"
    /\ Len(payloads) = 2
    /\ \A k \in 1..2 :
          \E j \in 1..Len(ncalls) :
              /\ ncalls[j].op = "classify" /\ ncalls[j].idx = k
              /\ ncalls[j].ok /\ ~ncalls[j].result
    /\ \A i \in 1..Len(ncalls) : ncalls[i].op \notin {"enqueue", "publish"}

\* the call has ended: it has returned or raised
NotifyEnded == npc \in {"done", "raised"}

\* C12: when the call has ended, a payload whose enqueue failed has been
\* published all the same, and a payload whose publish failed has been
\* enqueued.
C12_ChannelsIndependent ==
    NotifyEnded =>
        \A i \in 1..Len(ncalls) :
            /\ (ncalls[i].op = "enqueue" /\ ~ncalls[i].ok) =>
                  \E j \in 1..Len(ncalls) :
                      /\ ncalls[j].op = "publish" /\ ncalls[j].idx = ncalls[i].idx
                      /\ ncalls[j].payload = ncalls[i].payload
            /\ (ncalls[i].op = "publish" /\ ~ncalls[i].ok) =>
                  \E j \in 1..Len(ncalls) :
                      /\ ncalls[j].op = "enqueue" /\ ncalls[j].idx = ncalls[i].idx
                      /\ ncalls[j].ok

\* C13: a failed enqueue or publish call does not make the function raise:
\* the call returns, and every payload of the mutation has been processed.
C13_ChannelFailureNotRaised ==
    \A i \in 1..Len(ncalls) :
        (ncalls[i].op \in {"enqueue", "publish"} /\ ~ncalls[i].ok) =>
            /\ npc # "raised"
            /\ npc = "done" => nidx > Len(payloads)

\* C16: when the payload builder or the classifier raises, the function
\* raises that exception to its caller, the failing call is the last call
\* it makes, and no enqueue or publish call has been made for the payload
\* at hand or a later one.
C16_CollaboratorFailureRaised ==
    \A i \in 1..Len(ncalls) :
        (ncalls[i].op \in {"build", "classify"} /\ ~ncalls[i].ok) =>
            /\ npc = "raised"
            /\ nerror = ncalls[i].op
            /\ i = Len(ncalls)
            /\ \A j \in 1..Len(ncalls) :
                  ncalls[j].op \in {"enqueue", "publish"} =>
                      (ncalls[i].op = "classify" /\ ncalls[j].idx < ncalls[i].idx)

\* the classifier raised on the second payload, after the first was
\* dispatched
C16_Witness ==
    /\ npc = "raised" /\ nerror = "classify"
    /\ ncalls[Len(ncalls)].op = "classify" /\ ncalls[Len(ncalls)].idx = 2
    /\ \E j \in 1..Len(ncalls) : ncalls[j].op = "publish" /\ ncalls[j].idx = 1

\* payload k has an address and the classifier returned True for it
RelevantPayload(k) ==
    /\ payloads[k].address \notin {NoneAddr, ""}
    /\ \E j \in 1..Len(ncalls) :
          /\ ncalls[j].op = "classify" /\ ncalls[j].idx = k
          /\ ncalls[j].ok /\ ncalls[j].result

\* C17: when the call has returned, every payload with an address that the
\* classifier found relevant has exactly one enqueue call, carrying its
\* address and the payload with countdown 5 and priority 2, and exactly one
\* publish call carrying the payload; every other payload has none; so the
\* numbers of enqueue calls, of publish calls and of such payloads agree.
C17_OneEnqueueOnePublish ==
    npc = "done" =>
        /\ \A k \in 1..Len(payloads) :
              LET enq == {i \in CallsOf("enqueue") : ncalls[i].idx = k}
                  pub == {i \in CallsOf("publish") : ncalls[i].idx = k}
              IN  IF RelevantPayload(k)
                  THEN /\ Cardinality(enq) = 1 /\ Cardinality(pub) = 1
                       /\ \A i \in enq : /\ ncalls[i].address = payloads[k].address
                                         /\ ncalls[i].payload = payloads[k]
                                         /\ ncalls[i].countdown = 5
                                         /\ ncalls[i].priority = 2
                                         /\ ncalls[i].ok
                       /\ \A i \in pub : ncalls[i].payload = payloads[k] /\ ncalls[i].ok
                  ELSE enq = {} /\ pub = {}
        /\ Cardinality(CallsOf("enqueue")) =
              Cardinality({k \in 1..Len(payloads) : RelevantPayload(k)})
        /\ Cardinality(CallsOf("publish")) = Cardinality(CallsOf("enqueue"))

\* two relevant payloads, each enqueued and published
C17_Witness ==
    /\ npc = "done"
    /\ Len(payloads) = 2
    /\ RelevantPayload(1) /\ RelevantPayload(2)
    /\ Cardinality(CallsOf("enqueue")) = 2
    /\ Cardinality(CallsOf("publish")) = 2

\* C14: every call of add_to_historical_table, whether created is true or
\* false, appends one snapshot with the fields of the instance written and
\* returns it: the snapshots are the writes whose call has been made, n of
\* them after n writes, and a snapshot once appended is neither changed nor
\* removed.
C14_OneSnapshotPerWrite ==
    /\ [](/\ Len(history) + Len(pending) = Len(written)
          /\ \A x \in StatusRows :
                Count(history, x)
                    + Cardinality({i \in 1..Len(pending) : pending[i].instance = x})
                    = Count(written, x))
    /\ [][/\ Len(history') >= Len(history)
          /\ \A i \in 1..Len(history) : history'[i] = history[i]
          /\ Len(pending') < Len(pending) =>
                /\ Len(history') = Len(history) + 1
                /\ returned' = history'[Len(history')]
                /\ \E i \in 1..Len(pending) :
                      /\ returned'.address = pending[i].instance.address
                      /\ returned'.nonce = pending[i].instance.nonce]_vars

\* three writes, the row of one safe overwritten (created false), and three
\* snapshots
C14_Witness ==
    /\ Len(written) = 3 /\ pending = <<>> /\ Len(history) = 3
    /\ \E i, j \in 1..3 : i < j /\ written[i].address = written[j].address
                              /\ written[i].nonce # written[j].nonce
    /\ returned = history[3]

\* C15: the resolver returns [to, _from] for a transfer, [safe] for a
\* transaction, [safe of its transaction] for a confirmation that has a
\* transaction and the empty list for one that has none, [to] for an
\* internal transaction, and the empty list for an instance of any other
\* class; it returns for every instance, and the call changes nothing but its
\* result.
C15_AddressesByKind ==
    /\ [](rpc = "called" => ENABLED ResolveReturn)
    /\ [](rpc = "returned" =>
          rOut = CASE rInst.kind = "TokenTransfer" -> <<rInst.to, rInst.from>>
                   [] rInst.kind = "MultisigTransaction" -> <<rInst.safe>>
                   [] rInst.kind = "MultisigConfirmation" ->
                        IF rInst.multisig_transaction = NoTxObj
                        THEN <<>> ELSE <<rInst.multisig_transaction.safe>>
                   [] rInst.kind = "InternalTx" -> <<rInst.to>>
                   [] OTHER -> <<>>)
    /\ [][rpc = "called" =>
              /\ rpc' = "returned" /\ rInst' = rInst
              /\ UNCHANGED <<now, mtx, mconf, hT, hC, resaves>>
              /\ UNCHANGED <<npc, nargs, payloads, nidx, ncalls, nerror>>
              /\ UNCHANGED <<last, written, pending, history, returned>>]_vars

\* a transfer whose two addresses differ has been resolved
C15_Witness ==
    /\ rpc = "returned"
    /\ rInst.kind = "TokenTransfer"
    /\ rInst.to = "0xA" /\ rInst.from = "0xB"
    /\ rOut = <<"0xA", "0xB">>

\* C18: when the call made for a created transaction finds no confirmation
\* without a transaction that has the transaction's hash, its update changes
\* no row and the call returns without writing the transaction: the
\* transaction keeps the trusted flag and the modification time it had, and
\* the confirmations that have a transaction or another hash are as before.
C18_NoMatchNoWrite ==
    /\ [](\A h \in Hashes :
            hT[h].pc = "done" /\ hT[h].updated = 0 => ~hT[h].wrote)
    /\ [][\A h \in Hashes :
            (/\ hT[h].pc = "t_update"
             /\ hT'[h].pc # "t_update"
             /\ ~\E c \in Confs : /\ mconf[c].present
                                  /\ mconf[c].tx = NoTx
                                  /\ mconf[c].hash = h)
            => /\ hT'[h].pc = "done"
               /\ hT'[h].updated = 0
               /\ ~hT'[h].wrote
               /\ mtx'[h] = mtx[h]
               /\ mconf' = mconf]_vars

\* a call for a created transaction has returned with count 0 and the
\* transaction is as its writer left it, while a confirmation with the other
\* hash has no transaction and one with the same hash has one
C18_Witness ==
    \E h \in Hashes, c, d \in Confs :
        /\ hT[h].pc = "done" /\ hT[h].updated = 0 /\ ~hT[h].wrote
        /\ mtx[h].present /\ ~mtx[h].trusted /\ mtx[h].modified = mtx[h].created
        /\ mconf[c].present /\ mconf[c].hash # h /\ mconf[c].tx = NoTx
        /\ mconf[d].present /\ mconf[d].hash = h /\ mconf[d].tx = h

\* C20: a confirmation whose transaction reference was set by
\* bind_confirmation references the transaction that has the confirmation's
\* hash; the update made for a created transaction sets the reference of
\* every confirmation that has the transaction's hash and no transaction, and
\* of no other confirmation.
C20_HashConsistent ==
    /\ [](\A c \in Confs :
            hC[c].by # "none" =>
                /\ mconf[c].present
                /\ mconf[c].tx = mconf[c].hash
                /\ mtx[mconf[c].tx].present)
    /\ [][\A h \in Hashes :
            (hT[h].pc = "t_update" /\ hT'[h].pc # "t_update")
            => /\ \A c \in Confs :
                    IF mconf[c].present /\ mconf[c].tx = NoTx /\ mconf[c].hash = h
                    THEN mconf'[c] = [mconf[c] EXCEPT !.tx = h]
                    ELSE mconf'[c] = mconf[c]
               /\ hT'[h].updated =
                    Cardinality({c \in Confs : /\ mconf[c].present
                                               /\ mconf[c].tx = NoTx
                                               /\ mconf[c].hash = h})]_vars

\* the update made for a created transaction has set the reference of a
\* confirmation with its hash, and a confirmation with the other hash that
\* was there before is still without a transaction
C20_Witness ==
    \E h \in Hashes, c, d \in Confs :
        /\ hT[h].updated = 1
        /\ hC[c].by = "T" /\ mconf[c].hash = h /\ mconf[c].tx = h
        /\ mconf[d].present /\ mconf[d].hash # h /\ mconf[d].tx = NoTx
        /\ hC[d].first /\ hC[d].miss /\ ~mtx[mconf[d].hash].present

\* C19: a step of bind_confirmation changes of a stored transaction nothing
\* but trusted and modified, and of a stored confirmation nothing but its
\* transaction reference; what another writer has stored in another field
\* after the call read the row is still there after the call's write.
C19_OnlyNamedFieldsWritten ==
    [][(hT' # hT \/ hC' # hC) =>
          /\ \A h \in Hashes :
                mtx[h].present =>
                    /\ mtx'[h].present
                    /\ mtx'[h].created = mtx[h].created
                    /\ mtx'[h].extra = mtx[h].extra
          /\ \A c \in Confs :
                mconf[c].present =>
                    /\ mconf'[c].present
                    /\ mconf'[c].hash = mconf[c].hash
                    /\ mconf'[c].created = mconf[c].created
                    /\ mconf'[c].extra = mconf[c].extra]_vars

\* the call for a transaction and the call for a confirmation have each
\* saved an instance read before another writer changed the row, and the
\* change is in the rows
C19_Witness ==
    \E h, g \in Hashes, c \in Confs :
        /\ hT[h].pc = "done" /\ hT[h].wrote /\ hT[h].stale
        /\ mtx[h].trusted /\ mtx[h].extra = MaxExtra
        /\ hC[c].pc = "done" /\ hC[c].by = "C" /\ hC[c].stale
        /\ mconf[c].tx = g /\ mconf[c].extra = MaxExtra
        /\ mtx[g].trusted /\ mtx[g].extra = MaxExtra

====
